---- MODULE Spec2Model ----
(***************************************************************************)
(* SineModelAnal (essentia): sinusoidal peak analysis of one spectrum      *)
(* frame (configure, compute, phaseInterpolation) and the frame-to-frame   *)
(* track continuation (sinusoidalTracking).                                *)
(*                                                                         *)
(* Numbers.  Real is modelled by exact integers:                           *)
(*   - tracking frequencies are counted in units of 5 Hz (60 = 300 Hz,     *)
(*     61 = 305 Hz, 180 = 900 Hz), so that the literal 1e10 of the closest *)
(*     track search fits a 32-bit integer (2000000000);                    *)
(*   - freqDevSlope is counted in hundredths (1 = 0.01);                   *)
(*   - phases are counted in milliradians; an interpolated phase is kept   *)
(*     as a numerator over HalfRate (see Interpolate).                     *)
(* C++ vectors are sequences; a C++ index i is position i + 1.             *)
(***************************************************************************)
EXTENDS Integers, Sequences, FiniteSets, TLC

VARIABLES
  pc,               \* position of the caller: which call has been made
  peakMags,         \* sinusoidalTracking: argument peakMags (by reference)
  peakFrequencies,  \* sinusoidalTracking: argument peakFrequencies (by reference)
  peakPhases,       \* sinusoidalTracking: argument peakPhases (by reference)
  inMags,           \* the caller's peaks of the frame, as supplied to the call
  inFreqs,
  inPhases,
  tfreq,            \* sinusoidalTracking: incoming track frequencies
  freqDevOffset,    \* sinusoidalTracking: argument freqDevOffset (5 Hz units)
  freqDevSlope,     \* sinusoidalTracking: argument freqDevSlope (hundredths)
  tfreqn,           \* sinusoidalTracking: output track frequencies
  tmagn,            \* sinusoidalTracking: output track magnitudes
  tphasen,          \* sinusoidalTracking: output track phases
  frame,            \* number of continuation calls the caller has made
  ub,               \* an operation has run into undefined behaviour
  orderBy,          \* parameter("orderBy"), a sequence of characters
  pdConfig,         \* configuration committed to _peakDetect (<<>>: none yet)
  exception,        \* message of the EssentiaException thrown (<<>>: none)
  fftphase,         \* compute: phase array of the frame
  frequencies,      \* output _frequencies
  magnitudes,       \* output _magnitudes
  phases,           \* output _phases (numerators over HalfRate)
  readIdx           \* indices of fftphase read by phaseInterpolation

vars == <<pc, peakMags, peakFrequencies, peakPhases, inMags, inFreqs, inPhases,
          tfreq, freqDevOffset, freqDevSlope, tfreqn, tmagn, tphasen, frame, ub,
          orderBy, pdConfig, exception, fftphase, frequencies, magnitudes,
          phases, readIdx>>

trackVars == <<peakMags, peakFrequencies, peakPhases, inMags, inFreqs, inPhases,
               tfreq, freqDevOffset, freqDevSlope, tfreqn, tmagn, tphasen,
               frame>>

analVars == <<orderBy, pdConfig, exception, fftphase, frequencies, magnitudes,
              phases, readIdx>>

(***************************************************************************)
(* Bounds of the model                                                     *)
(***************************************************************************)
MaxTracks == 2
MaxPeaks == 2
MaxFrames == 3
MaxFft == 3
MaxPicks == 2

\* incoming track frequencies: 0 (empty slot), 300 Hz, 900 Hz
TrackFreqs == {0, 60, 180}
\* peak frequencies: 0, 300 Hz, 305 Hz, 900 Hz
PeakFreqs == {0, 60, 61, 180}
PeakMagValues == {2, 5}
\* caller-supplied <<freqDevOffset, freqDevSlope>>: (20 Hz, 0.01), (5 Hz, 0)
Tolerances == {<<4, 1>>, <<1, 0>>}

SeqsUpTo(S, n) == UNION {[1..k -> S] : k \in 0..n}

(***************************************************************************)
(* Helpers for C++ vectors                                                 *)
(***************************************************************************)
At(v, i) == v[i + 1]

Abs(x) == IF x < 0 THEN -x ELSE x

\* v.erase(v.begin() + i), for 0 <= i < v.size()
EraseAt(v, i) == [k \in 1..(Len(v) - 1) |-> IF k <= i THEN v[k] ELSE v[k + 1]]

\* std::vector<Real>::resize(n) on an empty vector: n value-initialised elements
Resized(n) == [k \in 1..n |-> 0]

\* for (i = 0; i < flags.size(); ++i) if (flags[i]) push_back(i): the indices,
\* ascending, at which the Boolean vector flags holds
RECURSIVE IndicesFrom(_, _)
IndicesFrom(i, flags) ==
  IF i < Len(flags)
    THEN (IF At(flags, i) THEN <<i>> ELSE <<>>) \o IndicesFrom(i + 1, flags)
    ELSE <<>>

(***************************************************************************)
(* sort_indexes: the index vectors std::sort may produce.  comparator is   *)
(* l.second < r.second, so the values are ascending; std::sort is not      *)
(* stable, so equal values come in any order.                              *)
(***************************************************************************)
sort_indexes(v) ==
  {idx \in [1..Len(v) -> 0..(Len(v) - 1)] :
     /\ \A a, b \in 1..Len(v) : a # b => idx[a] # idx[b]
     /\ \A a \in 1..(Len(v) - 1) : At(v, idx[a]) <= At(v, idx[a + 1])}

\* copy_int_vector_from_indexes
copy_int_vector_from_indexes(v, idx) == [k \in 1..Len(idx) |-> At(v, idx[k])]

\* erase_vector_from_indexes: erases position idx[i] of the vector as it is
\* after the earlier erasures; erasing at or past end() is undefined.
RECURSIVE erase_vector_from_indexes(_, _, _)
erase_vector_from_indexes(v, idx, i) ==
  IF i < Len(idx)
    THEN IF At(idx, i) < Len(v)
           THEN erase_vector_from_indexes(EraseAt(v, At(idx, i)), idx, i + 1)
           ELSE [v |-> v, ub |-> TRUE]
    ELSE [v |-> v, ub |-> FALSE]

(***************************************************************************)
(* sinusoidalTracking                                                      *)
(***************************************************************************)
\* freqDevOffset=20; freqDevSlope=0.01;  the arguments are overwritten
FreqDevOffsetUsed(off) == 4
FreqDevSlopeUsed(slope) == 1

\* freqDistance < (freqDevOffset + freqDevSlope * peakFrequencies[i]), with the
\* slope in hundredths: d < off + slope*pf/100, d and off integers
WithinDeviationInverted(d, off, slope, pf) == d - off > (slope * pf + 99) \div 100

WithinDeviation(d, off, slope, pf) == d - off < (slope * pf + 99) \div 100

FreqDistanceInit == 2000000000

\* incomingTracks: indices of the slots with tfreq[i] > 0
IncomingTracks(tf) == IndicesFrom(0, [k \in 1..Len(tf) |-> tf[k] > 0])

\* the search "find closest peak to incoming track": for k over incomingTracks,
\* if (freqDistance < |pfreqt[i] - tfreq[incomingTracks[k]]|) take k
RECURSIVE ClosestLoop(_, _, _, _, _, _)
ClosestLoop(k, freqDistance, closestIdx, pf, tf, incomingTracks) ==
  IF k < Len(incomingTracks)
    THEN LET d == Abs(pf - At(tf, At(incomingTracks, k)))
         IN  IF freqDistance < d
               THEN ClosestLoop(k + 1, d, k, pf, tf, incomingTracks)
               ELSE ClosestLoop(k + 1, freqDistance, closestIdx, pf, tf,
                                incomingTracks)
    ELSE [freqDistance |-> freqDistance, closestIdx |-> closestIdx]

\* the loop over magOrder that continues incoming tracks; yields newTracks
RECURSIVE MatchLoop(_, _, _, _, _, _, _, _)
MatchLoop(j, magOrder, newTracks, incomingTracks, pfreqt, tf, off, slope) ==
  IF j < Len(magOrder) /\ Len(incomingTracks) # 0
    THEN LET i == At(magOrder, j)
             c == ClosestLoop(0, FreqDistanceInit, 0, At(pfreqt, i), tf,
                              incomingTracks)
         IN  IF WithinDeviation(c.freqDistance, off, slope, At(pfreqt, i))
               THEN MatchLoop(j + 1, magOrder,
                      [newTracks EXCEPT ![At(incomingTracks, c.closestIdx) + 1] = i],
                      EraseAt(incomingTracks, c.closestIdx),
                      pfreqt, tf, off, slope)
               ELSE MatchLoop(j + 1, magOrder, newTracks, incomingTracks,
                              pfreqt, tf, off, slope)
    ELSE newTracks

NewTracks(magOrder, pfreqt, tf, off, slope) ==
  LET incomingTracks == IncomingTracks(tf)
      none == [k \in 1..Len(tf) |-> -1]
  IN  IF Len(incomingTracks) > 0
        THEN MatchLoop(0, magOrder, none, incomingTracks, pfreqt, tf, off, slope)
        ELSE none

\* emptyt: for (int i=0; i < emptyt.size(); ++i) if (tfreq[i] == 0) push_back(i)
RECURSIVE EmptyLoop(_, _, _)
EmptyLoop(i, emptyt, tf) ==
  IF i < Len(emptyt)
    THEN EmptyLoop(i + 1, IF At(tf, i) = 0 THEN Append(emptyt, i) ELSE emptyt, tf)
    ELSE emptyt

EmptyTracks(tf) == EmptyLoop(0, <<>>, tf)

\* the initial output arrays: tfreqn.resize(tfreq.size()) etc.
OutputCopiedFromTracks(tf) == tf

InitOutput(tf) == Resized(Len(tf))

\* output arrays after "if (indext.size() > 0)": the assigned peaks copied
\* into their track slots
Assigned(out, newTracks, pv) ==
  [s \in 1..Len(out) |-> IF newTracks[s] # -1 THEN At(pv, newTracks[s]) ELSE out[s]]

\* "fill empty tracks": tfreqn[emptyt[i]] = pfreqt[i] for i < peaksleft.size()
Filled(out, emptyt, peaksleft, pv) ==
  [s \in 1..Len(out) |->
     IF \E i \in 0..(Len(peaksleft) - 1) : At(emptyt, i) + 1 = s
       THEN At(pv, CHOOSE i \in 0..(Len(peaksleft) - 1) : At(emptyt, i) + 1 = s)
       ELSE out[s]]

\* "add more tracks if necessary": tfreqn[i] = pfreqt[peaksleft[i]] for
\* i < emptyt.size(), then push_back(pfreqt[peaksleft[i]]) for the rest
Appended(out, emptyt, peaksleft, pv) ==
  [s \in 1..Len(out) |->
     IF s - 1 < Len(emptyt) THEN At(pv, At(peaksleft, s - 1)) ELSE out[s]]
  \o [k \in 1..(Len(peaksleft) - Len(emptyt)) |->
        At(pv, At(peaksleft, Len(emptyt) + k - 1))]

\* the spawn pass on one output array
Spawned(out, emptyt, peaksleft, pv) ==
  IF Len(peaksleft) > 0 /\ Len(emptyt) >= Len(peaksleft)
    THEN Filled(out, emptyt, peaksleft, pv)
    ELSE IF Len(peaksleft) > 0 /\ Len(emptyt) < Len(peaksleft)
           THEN Appended(out, emptyt, peaksleft, pv)
           ELSE out

\* One call.  magOrder and peaksleft are the results of the two sort_indexes
\* calls; the result holds the output arrays and the peak arrays as the call
\* leaves them (they are passed by reference and erased from).
Tracking(pm, pf, pp, tf, off, slope, magOrder) ==
  LET newTracks == NewTracks(magOrder, pf, tf, FreqDevOffsetUsed(off),
                             FreqDevSlopeUsed(slope))
      indext == IndicesFrom(0, [k \in 1..Len(newTracks) |-> newTracks[k] # -1])
      indexp == copy_int_vector_from_indexes(newTracks, indext)
      out0 == InitOutput(tf)
      ef == erase_vector_from_indexes(pf, indexp, 0)
      em == erase_vector_from_indexes(pm, indexp, 0)
      ep == erase_vector_from_indexes(pp, indexp, 0)
      emptyt == EmptyTracks(tf)
  IN  [ub |-> ef.ub \/ em.ub \/ ep.ub,
       pfreqt |-> ef.v, pmagt |-> em.v, pphaset |-> ep.v,
       emptyt |-> emptyt,
       f1 |-> Assigned(out0, newTracks, pf),
       m1 |-> Assigned(out0, newTracks, pm),
       p1 |-> Assigned(out0, newTracks, pp)]

\* values a Real may hold after undefined behaviour, within the model
AnyReal == TrackFreqs \cup PeakFreqs \cup PeakMagValues \cup {-1, 1}

SinusoidalTracking ==
  /\ pc = "peaks"
  /\ \E magOrder \in sort_indexes(peakMags) :
       \E r \in {Tracking(peakMags, peakFrequencies, peakPhases, tfreq,
                         freqDevOffset, freqDevSlope, magOrder)} :
           IF r.ub
             THEN /\ ub' = TRUE
                  /\ \E n \in 0..(Len(tfreq) + Len(peakMags)) :
                       /\ tfreqn' \in [1..n -> AnyReal]
                       /\ tmagn' \in [1..n -> AnyReal]
                       /\ tphasen' \in [1..n -> AnyReal]
                  /\ \E n \in 0..Len(peakMags) :
                       /\ peakFrequencies' \in [1..n -> AnyReal]
                       /\ peakMags' \in [1..n -> AnyReal]
                       /\ peakPhases' \in [1..n -> AnyReal]
             ELSE \E peaksleft \in sort_indexes(r.pmagt) :
                    /\ tfreqn' = Spawned(r.f1, r.emptyt, peaksleft, r.pfreqt)
                    /\ tmagn' = Spawned(r.m1, r.emptyt, peaksleft, r.pmagt)
                    /\ tphasen' = Spawned(r.p1, r.emptyt, peaksleft, r.pphaset)
                    /\ peakFrequencies' = r.pfreqt
                    /\ peakMags' = r.pmagt
                    /\ peakPhases' = r.pphaset
                    /\ ub' = ub
  /\ pc' = "tracked"
  /\ UNCHANGED <<inMags, inFreqs, inPhases, tfreq, freqDevOffset, freqDevSlope,
                 frame>>
  /\ UNCHANGED analVars

\* The caller's loop (spec section 2): the output of a call is the incoming
\* track array of the next one, with the same peaks supplied again.
NextFrame ==
  /\ pc = "tracked"
  /\ ~ub
  /\ frame + 1 < MaxFrames
  /\ frame' = frame + 1
  /\ tfreq' = tfreqn
  /\ peakMags' = inMags
  /\ peakFrequencies' = inFreqs
  /\ peakPhases' = inPhases
  /\ tfreqn' = <<>>
  /\ tmagn' = <<>>
  /\ tphasen' = <<>>
  /\ pc' = "peaks"
  /\ UNCHANGED <<inMags, inFreqs, inPhases, freqDevOffset, freqDevSlope, ub>>
  /\ UNCHANGED analVars

AnalIdle ==
  /\ orderBy = <<>>
  /\ pdConfig = <<>>
  /\ exception = <<>>
  /\ fftphase = <<>>
  /\ frequencies = <<>>
  /\ magnitudes = <<>>
  /\ phases = <<>>
  /\ readIdx = {}

\* a call of sinusoidalTracking with freshly created (empty) output arrays;
\* the phase of a peak is its position in the caller's arrays, which tells the
\* peaks of a call apart
CallOf(tf, pf, pm, tol) ==
  /\ pc = "peaks"
  /\ frame = 0
  /\ ub = FALSE
  /\ tfreq = tf
  /\ inFreqs = pf
  /\ inMags = pm
  /\ inPhases = [k \in 1..Len(pf) |-> k]
  /\ peakMags = inMags
  /\ peakFrequencies = inFreqs
  /\ peakPhases = inPhases
  /\ freqDevOffset = tol[1]
  /\ freqDevSlope = tol[2]
  /\ tfreqn = <<>>
  /\ tmagn = <<>>
  /\ tphasen = <<>>
  /\ AnalIdle

\* scenarios B, C and D of the specification (section 8)
Scenarios ==
  {[tf |-> <<0, 0, 0, 0>>, pf |-> <<60, 180>>, pm |-> <<5, 2>>, tol |-> <<4, 1>>],
   [tf |-> <<60>>, pf |-> <<61>>, pm |-> <<3>>, tol |-> <<4, 1>>],
   [tf |-> <<60>>, pf |-> <<180>>, pm |-> <<3>>, tol |-> <<4, 1>>]}

Init ==
  \/ \E tf \in SeqsUpTo(TrackFreqs, MaxTracks), n \in 0..MaxPeaks,
        tol \in Tolerances :
       \E pf \in [1..n -> PeakFreqs], pm \in [1..n -> PeakMagValues] :
         CallOf(tf, pf, pm, tol)
  \/ \E c \in Scenarios : CallOf(c.tf, c.pf, c.pm, c.tol)

Next == SinusoidalTracking

\* one call of sinusoidalTracking on any input
Spec == Init /\ [][Next]_vars

NextFrames == SinusoidalTracking \/ NextFrame

\* the caller's loop over frames
SpecFrames == Init /\ [][NextFrames]_vars

(***************************************************************************)
(* Strings are sequences of characters, so that toLower and the            *)
(* concatenation of the error message are computed.                        *)
(***************************************************************************)
UpperCase == <<"A", "B", "C", "D", "E", "F", "G", "H", "I", "J", "K", "L", "M",
               "N", "O", "P", "Q", "R", "S", "T", "U", "V", "W", "X", "Y", "Z">>
LowerCase == <<"a", "b", "c", "d", "e", "f", "g", "h", "i", "j", "k", "l", "m",
               "n", "o", "p", "q", "r", "s", "t", "u", "v", "w", "x", "y", "z">>

\* Parameter::toLower
toLower(str) ==
  [k \in 1..Len(str) |->
     IF \E n \in 1..Len(UpperCase) : UpperCase[n] = str[k]
       THEN LowerCase[CHOOSE n \in 1..Len(UpperCase) : UpperCase[n] = str[k]]
       ELSE str[k]]

StrMagnitude == <<"m", "a", "g", "n", "i", "t", "u", "d", "e">>
StrFrequency == <<"f", "r", "e", "q", "u", "e", "n", "c", "y">>
StrAmplitude == <<"a", "m", "p", "l", "i", "t", "u", "d", "e">>
StrPosition == <<"p", "o", "s", "i", "t", "i", "o", "n">>

\* values of the orderBy parameter a caller may configure
OrderByValues ==
  {StrMagnitude, StrFrequency, <<"M", "a", "g", "n", "i", "t", "u", "d", "e">>, <<"F", "R", "E", "Q", "U", "E", "N", "C", "Y">>,
   StrAmplitude, StrPosition, <<"E", "n", "e", "r", "g", "y">>, <<>>}

\* the parameters other than orderBy (declareParameters), with a sample rate
\* of 120 Hz and maxFrequency at the Nyquist frequency
Params ==
  [sampleRate |-> 120, maxPeaks |-> 100, maxFrequency |-> 60, minFrequency |-> 0,
   magnitudeThreshold |-> 0]

\* parameter("sampleRate").toReal()/2.0
HalfRate == Params.sampleRate \div 2

(***************************************************************************)
(* configure                                                               *)
(***************************************************************************)
\* the orderBy handed to _peakDetect, for a recognised lower-cased value
PeakDetectOrderSwapped(ob) == IF ob = StrMagnitude THEN StrPosition ELSE StrAmplitude

PeakDetectOrder(ob) == IF ob = StrMagnitude THEN StrAmplitude ELSE StrPosition

\* the message of the EssentiaException
ErrorMessage(ob) == <<"Unsupported ordering type: '">> \o ob \o <<"'">>

PeakDetectConfig(ob) ==
  [interpolate |-> TRUE, range |-> HalfRate, maxPeaks |-> Params.maxPeaks,
   minPosition |-> Params.minFrequency, maxPosition |-> Params.maxFrequency,
   threshold |-> Params.magnitudeThreshold, orderBy |-> ob]

Configure ==
  /\ pc \in {"created", "configured", "failed"}
  /\ \E v \in OrderByValues :
       /\ orderBy' = v
       /\ LET ob == toLower(v)
          IN  IF ob = StrMagnitude \/ ob = StrFrequency
                THEN /\ pdConfig' = PeakDetectConfig(PeakDetectOrder(ob))
                     /\ exception' = <<>>
                     /\ pc' = "configured"
                ELSE /\ exception' = ErrorMessage(ob)
                     /\ pdConfig' = pdConfig
                     /\ pc' = "failed"
  /\ UNCHANGED <<fftphase, frequencies, magnitudes, phases, readIdx, ub>>
  /\ UNCHANGED trackVars

(***************************************************************************)
(* phaseInterpolation.  With pos = fftSize * freq / HalfRate, posNum is    *)
(* pos * HalfRate and aNum is a * HalfRate; an output phase is kept as     *)
(* phase * HalfRate, so that the interpolation is exact.                   *)
(***************************************************************************)
\* phases in milliradians
PhaseValues == {-3000, 3000}

Pi == 3142

\* what a read one past the array may yield
GarbagePhases == PhaseValues \cup {1}

\* a * nb + (1.0 - a) * cur
InterpolateSwapped(aNum, nb, cur) == (HalfRate - aNum) * nb + aNum * cur

Interpolate(aNum, nb, cur) == aNum * nb + (HalfRate - aNum) * cur

\* idx = int(0.5 + pos)
ClosestBin(posNum) == (2 * posNum + HalfRate) \div (2 * HalfRate)

\* the values fftphase[i] may yield: the element, or anything when i is
\* outside the array
ReadPhase(ph, i) == IF 0 <= i /\ i < Len(ph) THEN {At(ph, i)} ELSE GarbagePhases

\* (|nb - cur| > M_PI) ? a * nb + (1.0 - a) * cur : cur
Guarded(aNum, nb, cur) ==
  IF Abs(nb - cur) > Pi THEN Interpolate(aNum, nb, cur) ELSE HalfRate * cur

\* the outcomes of the loop body for one peak frequency: the phase written,
\* the indices of fftphase read
PeakPhase(ph, freq) ==
  LET fftSize == Len(ph)
      posNum == fftSize * freq
      idx == ClosestBin(posNum)
      aNum == posNum - idx * HalfRate
  IN  IF aNum < 0 /\ idx > 0
        THEN {[phase |-> Guarded(aNum, nb, cur), reads |-> {idx - 1, idx}] :
                nb \in ReadPhase(ph, idx - 1), cur \in ReadPhase(ph, idx)}
        ELSE IF idx < fftSize - 1
               THEN {[phase |-> Guarded(aNum, nb, cur), reads |-> {idx + 1, idx}] :
                       nb \in ReadPhase(ph, idx + 1), cur \in ReadPhase(ph, idx)}
               ELSE {[phase |-> HalfRate * cur, reads |-> {idx}] :
                       cur \in ReadPhase(ph, idx)}

\* int N = peakFrequencies.size(); peakPhases.resize(N)
PhaseCountOfSpectrum(ph, pf) == Len(ph)

PhaseCount(ph, pf) == Len(pf)

\* the outcomes of phaseInterpolation(fftphase, peakFrequencies, peakPhases)
phaseInterpolation(ph, pf) ==
  LET N == PhaseCount(ph, pf)
      all == UNION {PeakPhase(ph, pf[i]) : i \in 1..Len(pf)}
  IN  {[peakPhases |-> [i \in 1..N |-> IF i <= Len(pf) THEN o[i].phase ELSE 0],
        reads |-> UNION {o[i].reads : i \in 1..Len(pf)}] :
         o \in {c \in [1..Len(pf) -> all] :
                  \A i \in 1..Len(pf) : c[i] \in PeakPhase(ph, pf[i])}}

(***************************************************************************)
(* compute, with the two collaborators at their interface                  *)
(***************************************************************************)
\* peak positions the magnitude array of a frame may hold
PickFreqs == {0, 25, 30, 35, 40, 45, 60}

\* PeakDetection: positions and amplitudes of equal length, at most maxPeaks
\* of them, the positions distinct, within [minPosition, maxPosition] and the
\* range, ascending when ordered by position; an empty array has no peak
PeakDetection(cfg, size) ==
  LET allowed == {f \in PickFreqs :
                    cfg.minPosition <= f /\ f <= cfg.maxPosition /\ f <= cfg.range}
      most == IF size = 0 THEN 0
              ELSE IF cfg.maxPeaks < MaxPicks THEN cfg.maxPeaks ELSE MaxPicks
  IN  {[positions |-> q, amplitudes |-> [k \in 1..Len(q) |-> 1]] :
         q \in {x \in SeqsUpTo(allowed, most) :
                  /\ \A a, b \in 1..Len(x) : a # b => x[a] # x[b]
                  /\ cfg.orderBy = StrPosition =>
                       \A a \in 1..(Len(x) - 1) : x[a] < x[a + 1]}}

\* CartesianToPolar: the phase arrays a frame of the given size may have
CartesianToPolar(size) == [1..size -> PhaseValues]

Compute ==
  /\ pc = "configured"
  /\ \E size \in 0..MaxFft :
       \E ph \in CartesianToPolar(size) :
         \E peaks \in PeakDetection(pdConfig, size) :
           \E r \in phaseInterpolation(ph, peaks.positions) :
             /\ fftphase' = ph
             /\ frequencies' = peaks.positions
             /\ magnitudes' = peaks.amplitudes
             /\ phases' = r.peakPhases
             /\ readIdx' = r.reads
             /\ ub' = (ub \/ \E i \in r.reads : i < 0 \/ i >= size)
  /\ pc' = "computed"
  /\ UNCHANGED <<orderBy, pdConfig, exception>>
  /\ UNCHANGED trackVars

TrackIdle ==
  /\ peakMags = <<>>
  /\ peakFrequencies = <<>>
  /\ peakPhases = <<>>
  /\ inMags = <<>>
  /\ inFreqs = <<>>
  /\ inPhases = <<>>
  /\ tfreq = <<>>
  /\ freqDevOffset = 0
  /\ freqDevSlope = 0
  /\ tfreqn = <<>>
  /\ tmagn = <<>>
  /\ tphasen = <<>>
  /\ frame = 0

\* the algorithm as constructed: nothing configured, nothing computed
InitAnal ==
  /\ pc = "created"
  /\ ub = FALSE
  /\ AnalIdle
  /\ TrackIdle

NextAnal == Configure \/ Compute

\* the Spectral Peak Analyzer: configure, then compute one frame
SpecAnal == InitAnal /\ [][NextAnal]_vars

(***************************************************************************)
(* Properties of sinusoidalTracking                                        *)
(***************************************************************************)
Slots == 1..Len(tfreq)
PeakIdx == 1..Len(inFreqs)

\* peak p lies within the caller's tolerance of incoming track slot s
Tolerated(p, s) ==
  /\ tfreq[s] # 0
  /\ WithinDeviation(Abs(inFreqs[p] - tfreq[s]), freqDevOffset, freqDevSlope,
                     inFreqs[p])

\* no peak of the call can continue any track, so every peak is left
\* unmatched by the matching pass whatever the order of the visits
AllUnmatched == \A p \in PeakIdx, s \in Slots : ~Tolerated(p, s)

AllPeaksPositive == \A p \in PeakIdx : inFreqs[p] > 0

DistinctMags == \A p, q \in PeakIdx : p # q => inMags[p] # inMags[q]

EmptySlots == {s \in Slots : tfreq[s] = 0}

\* output slot t holds peak p
Holds(t, p) ==
  /\ t \in 1..Len(tfreqn)
  /\ tfreqn[t] = inFreqs[p]
  /\ tmagn[t] = inMags[p]
  /\ tphasen[t] = inPhases[p]

\* C1: a peak within the caller's tolerance of an incoming track, that track
\* being the closest unmatched one when the peak is visited (here: strictly
\* the closest track, and no other peak can take any track), continues the
\* track: the slot holds the peak and the peak takes no additional slot.
C1_ContinuesTrack ==
  pc = "tracked" =>
    \A s \in Slots, p \in PeakIdx :
      ( /\ inFreqs[p] > 0
        /\ Tolerated(p, s)
        /\ \A t \in Slots \ {s} :
             tfreq[t] # 0 => Abs(inFreqs[p] - tfreq[t]) > Abs(inFreqs[p] - tfreq[s])
        /\ \A q \in PeakIdx \ {p}, t \in Slots : ~Tolerated(q, t) )
      => /\ Holds(s, p)
         /\ Len(tfreqn) <= Len(tfreq) + Len(inFreqs) - 1

\* C2: when the empty incoming slots are at least as many as the unmatched
\* peaks, the output keeps the incoming length, the k-th largest unmatched
\* peak is in the k-th empty slot and the surplus empty slots stay 0.
C2_SpawnFillsEmptySlots ==
  ( /\ pc = "tracked"
    /\ AllUnmatched
    /\ AllPeaksPositive
    /\ DistinctMags
    /\ Cardinality(EmptySlots) >= Len(inFreqs) )
  => /\ Len(tfreqn) = Len(tfreq)
     /\ \A s \in EmptySlots :
          LET k == Cardinality({e \in EmptySlots : e < s}) + 1
          IN  IF k <= Len(inFreqs)
                THEN \E p \in PeakIdx :
                       /\ Cardinality({q \in PeakIdx : inMags[q] > inMags[p]}) = k - 1
                       /\ Holds(s, p)
                ELSE tfreqn[s] = 0

\* C3: every output frequency is 0 or the frequency of a peak of the call.
C3_Conservation ==
  pc = "tracked" =>
    \A t \in 1..Len(tfreqn) :
      tfreqn[t] = 0 \/ \E p \in PeakIdx : inFreqs[p] = tfreqn[t]

\* a call that silenced a track whose frequency is no peak's, and stored a peak
C3_Witness ==
  /\ pc = "tracked"
  /\ \E s \in Slots :
       /\ tfreq[s] # 0
       /\ \A p \in PeakIdx : inFreqs[p] # tfreq[s]
  /\ \E t \in 1..Len(tfreqn) : tfreqn[t] # 0

\* C4: the output is never shorter than the incoming array; when the
\* unmatched peaks outnumber the empty incoming slots, every empty slot is
\* filled and the output grows by the overflow (unmatched minus empty).
C4_Growth ==
  pc = "tracked" =>
    /\ Len(tfreqn) >= Len(tfreq)
    /\ ( /\ AllUnmatched
         /\ AllPeaksPositive
         /\ Len(inFreqs) > Cardinality(EmptySlots) )
       => /\ Len(tfreqn) = Len(tfreq) + Len(inFreqs) - Cardinality(EmptySlots)
          /\ \A s \in EmptySlots : tfreqn[s] # 0

SeparatePeaks ==
  /\ Len(inFreqs) > 0
  /\ AllPeaksPositive
  /\ DistinctMags
  /\ \A p, q \in PeakIdx :
       p # q => ~WithinDeviation(Abs(inFreqs[p] - inFreqs[q]), freqDevOffset,
                                 freqDevSlope, inFreqs[p])

\* C9: with the same separate peaks in every frame and each output fed back
\* as the next incoming array, from the second frame on every peak keeps the
\* slot it had in the previous frame and the array no longer grows.
C9_StableSlots ==
  (pc = "tracked" /\ frame >= 1 /\ SeparatePeaks) =>
    /\ Len(tfreqn) = Len(tfreq)
    /\ \A p \in PeakIdx : \E s \in Slots : tfreq[s] = inFreqs[p] /\ Holds(s, p)

(***************************************************************************)
(* Properties of the Spectral Peak Analyzer                                *)
(***************************************************************************)
\* C6: after compute() the three outputs have equal length.
C6_Alignment ==
  pc = "computed" =>
    /\ Len(magnitudes) = Len(frequencies)
    /\ Len(phases) = Len(frequencies)

\* a frame with two peaks and three bins
C6_Witness ==
  /\ pc = "computed"
  /\ Len(frequencies) = 2
  /\ Len(fftphase) = 3
  /\ Len(phases) = 2

\* str occurs in msg as a run of consecutive characters
Carries(msg, str) ==
  \E k \in 0..(Len(msg) - Len(str)) : \A n \in 1..Len(str) : msg[k + n] = str[n]

Recognised(v) == toLower(v) = StrMagnitude \/ toLower(v) = StrFrequency

\* a step of configure(): the only steps that end in "configured" or "failed"
ConfigureStep == pc' \in {"configured", "failed"}

\* what configure() does with a recognised value
ConfiguredAsAsked ==
  /\ pc' = "configured"
  /\ exception' = <<>>
  /\ toLower(orderBy') = StrMagnitude => pdConfig'.orderBy = StrAmplitude
  /\ toLower(orderBy') = StrFrequency => pdConfig'.orderBy = StrPosition

\* C7: configure() with an orderBy that is neither 'magnitude' nor
\* 'frequency' (case-insensitively) ends in an error carrying the offending
\* value and leaves the Peak Picker's configuration unchanged; 'magnitude'
\* configures the Peak Picker with 'amplitude', 'frequency' with 'position';
\* compute() raises no error.
C7_ConfigureError ==
  [][ /\ ConfigureStep =>
           IF Recognised(orderBy')
             THEN ConfiguredAsAsked
             ELSE /\ pc' = "failed"
                  /\ Carries(exception', orderBy')
                  /\ pdConfig' = pdConfig
      /\ pc' = "computed" => exception' = exception ]_vars

\* C7, with the value as the message holds it: configure() with an
\* unrecognised orderBy ends in an error carrying the value in lower case and
\* leaves the Peak Picker's configuration unchanged; the rest as above.
C7_ConfigureErrorLowerCase ==
  [][ /\ ConfigureStep =>
           IF Recognised(orderBy')
             THEN ConfiguredAsAsked
             ELSE /\ pc' = "failed"
                  /\ Carries(exception', toLower(orderBy'))
                  /\ pdConfig' = pdConfig
      /\ pc' = "computed" => exception' = exception ]_vars

\* configure() has failed on a mixed-case value after a successful configure()
C7_Witness ==
  /\ pc = "failed"
  /\ pdConfig # <<>>
  /\ orderBy # toLower(orderBy)
  /\ exception # <<>>

\* pos = fftSize * freq / HalfRate is exactly the bin
AtBin(freq, bin) == Len(fftphase) * freq = bin * HalfRate

\* C8: a peak whose fractional bin position is exactly 0 or exactly
\* fftSize-1 gets the raw phase of that bin.
C8_BoundaryPhase ==
  pc = "computed" =>
    \A i \in 1..Len(frequencies) :
      \A bin \in {0, Len(fftphase) - 1} :
        (Len(fftphase) >= 1 /\ AtBin(frequencies[i], bin))
        => phases[i] = HalfRate * At(fftphase, bin)

\* a peak at bin 0 whose neighbour bin is a phase wrap away, and a peak at the
\* last bin
C8_Witness ==
  /\ pc = "computed"
  /\ Len(fftphase) >= 2
  /\ Abs(fftphase[2] - fftphase[1]) > Pi
  /\ \E i \in 1..Len(frequencies) : AtBin(frequencies[i], 0)
  /\ \E i \in 1..Len(frequencies) : AtBin(frequencies[i], Len(fftphase) - 1)

\* C10: every index of the phase array that phaseInterpolation reads, for
\* peak frequencies in [0, sampleRate/2], lies in 0..fftSize-1.
C10_ReadsInside ==
  pc = "computed" =>
    ( (\A i \in 1..Len(frequencies) :
         0 <= frequencies[i] /\ frequencies[i] <= HalfRate)
      => \A i \in readIdx : 0 <= i /\ i <= Len(fftphase) - 1 )

====
